---------------------------- MODULE Spec2Model ----------------------------
(***************************************************************************)
(* Model of the two engines of the repository:                             *)
(*   1_axle_tree_merger/merge_axle_tree.py      (box grouping)              *)
(*   2_performance_evaluation_precision_accuracy/evaluate_perf.py          *)
(*                                               (detection evaluation)     *)
(*                                                                         *)
(* Numbers.  Coordinates of the grouping engine are JSON numbers; they are *)
(* modelled as records [v, isfloat]: v is the value in units of 0.005 (so  *)
(* that the default overlap threshold 0.01 is 2 units and 10.005 is 2001   *)
(* units), isfloat tells a Python float from a Python int.  Python         *)
(* compares and adds numbers by value, float(x) changes only the type.     *)
(* Scores, thresholds, IoU values, precision and recall are fractions      *)
(* [n, d] kept in lowest terms; they are compared by cross multiplication. *)
(* IEEE division is correctly rounded and monotone, so within the bounds   *)
(* used here two quotients are equal (ordered) as floats exactly when they *)
(* are equal (ordered) as fractions.                                       *)
(* Python lists are sequences; Python index k is position k+1.             *)
(***************************************************************************)
EXTENDS Integers, Sequences, FiniteSets, TLC

VARIABLES
    pc,                         \* "call" before the entry point runs, then what it has done
    \* merge_boxes called on its own
    single_axle_boxes_by_image, \* argument of merge_boxes
    overlap_threshold,          \* argument of merge_boxes
    merged_boxes_by_image,      \* value returned by merge_boxes (None before)
    sweep,                      \* per image: the sort order and every `group` built
    \* merge_axle_trees on a document
    annotation,                 \* the document, updated in place
    before,                     \* the document as it was when the last call began
    calls,                      \* number of completed merge_axle_trees calls
    raised,                     \* exception raised by the last call, or None
    \* evaluate_image
    annotations,                \* ground-truth image
    predictions,                \* prediction image
    threshold,                  \* score threshold
    Jaccard_min,                \* IoU threshold
    outcome,                    \* value returned by evaluate_image (None before)
    decisions,                  \* what the matching loop decided for each prediction
    \* evaluate_pr_naive / evaluate_pr
    gt_doc,                     \* ground-truth document
    pred_doc,                   \* prediction document
    N,                          \* number of threshold steps
    naive_results,              \* value returned by evaluate_pr_naive (None before)
    results_list,               \* value returned by evaluate_pr (None before)
    totals                      \* per threshold: the totals and per-image counts of evaluate_pr

mergeVars == <<single_axle_boxes_by_image, overlap_threshold, merged_boxes_by_image, sweep>>
docVars == <<annotation, before, calls, raised>>
evalVars == <<annotations, predictions, threshold, Jaccard_min, outcome, decisions>>
prVars == <<gt_doc, pred_doc, N, naive_results, results_list, totals>>
vars == <<pc, mergeVars, docVars, evalVars, prVars>>

None == "None"

(***************************************************************************)
(* Bounds of the model.                                                    *)
(***************************************************************************)
MaxCoord == 2       \* x coordinates of the boxes given to merge_boxes: 0..MaxCoord
MaxBoxes == 3       \* boxes per image given to merge_boxes
MaxThreshold == 2   \* overlap_threshold ranges over 0..MaxThreshold

(***************************************************************************)
(* Generic helpers.                                                        *)
(***************************************************************************)
SeqsUpTo(S, n) == UNION {[1..k -> S] : k \in 0..n}

Range(s) == {s[k] : k \in DOMAIN s}

(***************************************************************************)
(* merge_axle_tree.py: numbers and boxes.                                  *)
(***************************************************************************)
\* the Python int n, and the Python float of v units of 0.005
IntNum(n) == [v |-> 200 * n, isfloat |-> FALSE]
FloatNum(v) == [v |-> v, isfloat |-> TRUE]

\* float(v), line 162 and 169
float(x) == [v |-> x.v, isfloat |-> TRUE]

MBox(x1, y1, x2, y2) == [xmin |-> x1, ymin |-> y1, xmax |-> x2, ymax |-> y2]

RECURSIVE FirstMin(_, _, _)
\* min(...) over a generator: the first of the smallest items
FirstMin(s, k, best) ==
    IF k > Len(s) THEN best
    ELSE FirstMin(s, k + 1, IF s[k].v < best.v THEN s[k] ELSE best)

RECURSIVE FirstMax(_, _, _)
\* max(...) over a generator: the first of the largest items
FirstMax(s, k, best) ==
    IF k > Len(s) THEN best
    ELSE FirstMax(s, k + 1, IF s[k].v > best.v THEN s[k] ELSE best)

\* the dictionary built at lines 115-120 from a non-empty group of boxes
Envelope(group) ==
    [xmin |-> FirstMin([k \in DOMAIN group |-> group[k].xmin], 2, group[1].xmin),
     ymin |-> FirstMin([k \in DOMAIN group |-> group[k].ymin], 2, group[1].ymin),
     xmax |-> FirstMax([k \in DOMAIN group |-> group[k].xmax], 2, group[1].xmax),
     ymax |-> FirstMax([k \in DOMAIN group |-> group[k].ymax], 2, group[1].ymax)]

(***************************************************************************)
(* sorted(single_axle_boxes, key=lambda b: b["xmin"]), line 92.  sorted is *)
(* stable; it is computed here on the positions of the input list, so that *)
(* the sorted list is [k |-> boxes[order[k]]].                             *)
(***************************************************************************)
RECURSIVE InsertByXmin(_, _, _, _)
\* insert position p into the sorted prefix `order`, after every position
\* whose xmin is not larger
InsertByXmin(boxes, order, p, k) ==
    IF k > Len(order) THEN Append(order, p)
    ELSE IF boxes[order[k]].xmin.v > boxes[p].xmin.v
         THEN SubSeq(order, 1, k - 1) \o <<p>> \o SubSeq(order, k, Len(order))
         ELSE InsertByXmin(boxes, order, p, k + 1)

RECURSIVE SortOrder(_, _, _)
SortOrder(boxes, order, p) ==
    IF p > Len(boxes) THEN order
    ELSE SortOrder(boxes, InsertByXmin(boxes, order, p, 1), p + 1)

SortedByXmin(boxes) ==
    LET order == SortOrder(boxes, <<>>, 1)
    IN  [k \in DOMAIN boxes |-> boxes[order[k]]]

(***************************************************************************)
(* merge_boxes, lines 87-126: the sweep over one image.                    *)
(***************************************************************************)
\* line 107: box2 joins the group
Joins(box2, current_xmax, thr) == box2.xmin.v <= current_xmax + thr

\* line 110: the new right boundary of the group
SeedXmaxOnly(current_xmax, box2) == current_xmax
NextXmax(current_xmax, box2) ==
    IF box2.xmax.v > current_xmax THEN box2.xmax.v ELSE current_xmax

\* lines 113-114: the seed leaves remaining_single_axle when its group has
\* more than one box
SeedStaysRemaining(remaining, i, group) == remaining
RemainingAfterGroup(remaining, i, group) ==
    IF Len(group) > 1 THEN remaining \ {i} ELSE remaining

RECURSIVE InnerScan(_, _, _, _, _, _)
\* lines 101-110: for j in range(i + 1, len(single_axle_boxes))
InnerScan(sorted, remaining, j, group, current_xmax, thr) ==
    IF j > Len(sorted)
    THEN [group |-> group, remaining |-> remaining]
    ELSE IF j \notin remaining
    THEN InnerScan(sorted, remaining, j + 1, group, current_xmax, thr)
    ELSE IF Joins(sorted[j], current_xmax, thr)
    THEN InnerScan(sorted, remaining \ {j}, j + 1, Append(group, j),
                   NextXmax(current_xmax, sorted[j]), thr)
    ELSE InnerScan(sorted, remaining, j + 1, group, current_xmax, thr)

RECURSIVE OuterLoop(_, _, _, _, _, _)
\* lines 94-120: for i, box1 in enumerate(single_axle_boxes).  `groups`
\* collects every `group` list the loop builds, as positions of the sorted list.
OuterLoop(sorted, remaining, i, merged_boxes, groups, thr) ==
    IF i > Len(sorted)
    THEN [merged_boxes |-> merged_boxes, remaining |-> remaining, groups |-> groups]
    ELSE IF i \notin remaining
    THEN OuterLoop(sorted, remaining, i + 1, merged_boxes, groups, thr)
    ELSE LET scan == InnerScan(sorted, remaining, i + 1, <<i>>, sorted[i].xmax.v, thr)
             group == scan.group
         IN  OuterLoop(sorted,
                       RemainingAfterGroup(scan.remaining, i, group),
                       i + 1,
                       IF Len(group) > 1
                       THEN Append(merged_boxes,
                                   Envelope([k \in DOMAIN group |-> sorted[group[k]]]))
                       ELSE merged_boxes,
                       Append(groups, group),
                       thr)

\* lines 88-126 for one image
MergeImage(single_axle_boxes, thr) ==
    LET sorted == SortedByXmin(single_axle_boxes)
        loop == OuterLoop(sorted, DOMAIN sorted, 1, <<>>, <<>>, thr)
        \* line 125 iterates the set of small ints in increasing order
        left == SelectSeq([k \in DOMAIN sorted |-> k], LAMBDA k : k \in loop.remaining)
    IN  [grouped_axles |-> loop.merged_boxes,
         single_axle |-> [k \in DOMAIN left |-> sorted[left[k]]]]

\* the local state of the sweep of one image: the sort order and the groups
SweepOf(single_axle_boxes, thr) ==
    LET order == SortOrder(single_axle_boxes, <<>>, 1)
        sorted == SortedByXmin(single_axle_boxes)
    IN  [order |-> order,
         groups |-> OuterLoop(sorted, DOMAIN sorted, 1, <<>>, <<>>, thr).groups]

merge_boxes(boxes_by_image, thr) ==
    [image_id \in DOMAIN boxes_by_image |-> MergeImage(boxes_by_image[image_id], thr)]

(***************************************************************************)
(* Inputs of merge_boxes.  Boxes have xmin <= xmax and ymin <= ymax (the   *)
(* data model); equal xmin values and nested boxes are among them.         *)
(***************************************************************************)
YIntervals == {<<0, 2>>, <<1, 3>>}

MergeBoxSet ==
    {MBox(FloatNum(x1), FloatNum(y[1]), FloatNum(x2), FloatNum(y[2])) :
        x1 \in 0..MaxCoord, x2 \in 0..MaxCoord, y \in YIntervals} \cap
    {b \in [xmin : [v : 0..MaxCoord, isfloat : {TRUE}], ymin : [v : 0..3, isfloat : {TRUE}],
            xmax : [v : 0..MaxCoord, isfloat : {TRUE}], ymax : [v : 0..3, isfloat : {TRUE}]] :
        b.xmin.v <= b.xmax.v}

FlatBoxSet == {b \in MergeBoxSet : b.ymin.v = 0}

\* overlap_threshold=0.01, line 60, in units of 0.005
DefaultOverlapThreshold == 2

\* A{xmin 0, xmax 10}, B{xmin 10.005, xmax 20} and B'{xmin 10.02, xmax 20}
ScenarioA == MBox(IntNum(0), IntNum(0), IntNum(10), IntNum(1))
ScenarioB == MBox(FloatNum(2001), IntNum(0), IntNum(20), IntNum(1))
ScenarioFarB == MBox(FloatNum(2004), IntNum(0), IntNum(20), IntNum(1))
Scenario1 == [image_id \in {"a"} |-> <<ScenarioA, ScenarioB>>]
Scenario2 == [image_id \in {"a"} |-> <<ScenarioA, ScenarioFarB>>]

\* one image with up to MaxBoxes boxes of one height or fewer boxes of two
\* heights, two images with up to two boxes each, and the two scenarios
MergeInputs ==
    [{"a"} -> SeqsUpTo(FlatBoxSet, MaxBoxes)]
    \cup [{"a"} -> SeqsUpTo(MergeBoxSet, MaxBoxes - 1)]
    \cup [{"a", "b"} -> SeqsUpTo(FlatBoxSet, 2)]
    \cup {Scenario1, Scenario2}

IdleMerge ==
    /\ single_axle_boxes_by_image = None
    /\ overlap_threshold = None
    /\ merged_boxes_by_image = None
    /\ sweep = None

IdleDoc ==
    /\ annotation = None
    /\ before = None
    /\ calls = 0
    /\ raised = None

IdleEval ==
    /\ annotations = None
    /\ predictions = None
    /\ threshold = None
    /\ Jaccard_min = None
    /\ outcome = None
    /\ decisions = None

IdlePr ==
    /\ gt_doc = None
    /\ pred_doc = None
    /\ N = None
    /\ naive_results = None
    /\ results_list = None
    /\ totals = None

(***************************************************************************)
(* Specification of merge_boxes called on its own.                         *)
(***************************************************************************)
InitMerge ==
    /\ pc = "call"
    /\ single_axle_boxes_by_image \in MergeInputs
    /\ overlap_threshold \in 0..MaxThreshold
    /\ merged_boxes_by_image = None
    /\ sweep = None
    /\ IdleDoc /\ IdleEval /\ IdlePr

MergeBoxes ==
    /\ pc = "call"
    /\ pc' = "returned"
    /\ merged_boxes_by_image' = merge_boxes(single_axle_boxes_by_image, overlap_threshold)
    /\ sweep' = [image_id \in DOMAIN single_axle_boxes_by_image |->
                    SweepOf(single_axle_boxes_by_image[image_id], overlap_threshold)]
    /\ UNCHANGED <<single_axle_boxes_by_image, overlap_threshold, docVars, evalVars, prVars>>

NextMerge == MergeBoxes

SpecMerge == InitMerge /\ [][NextMerge]_vars

(***************************************************************************)
(* Helpers of the claims about merge_boxes.                                *)
(***************************************************************************)
\* the groups of more than one box, and the groups of one box, in the order built
MultiGroups(groups) == SelectSeq(groups, LAMBDA g : Len(g) > 1)
LoneGroups(groups) == SelectSeq(groups, LAMBDA g : Len(g) = 1)

\* how often input position p occurs in the groups
Occurrences(sw, p) ==
    Cardinality({<<m, k>> \in (DOMAIN sw.groups) \X (DOMAIN sw.order) :
                    k \in DOMAIN sw.groups[m] /\ sw.order[sw.groups[m][k]] = p})

\* order sorts boxes by xmin, ties in input order
IsStableOrder(boxes, order) ==
    /\ Len(order) = Len(boxes)
    /\ Range(order) = DOMAIN boxes
    /\ \A k, l \in DOMAIN order :
          k < l => \/ boxes[order[k]].xmin.v < boxes[order[l]].xmin.v
                   \/ /\ boxes[order[k]].xmin.v = boxes[order[l]].xmin.v
                      /\ order[k] < order[l]

SetMax(S) == CHOOSE x \in S : \A y \in S : y <= x
SetMin(S) == CHOOSE x \in S : \A y \in S : x <= y

RECURSIVE RunEnd(_, _, _, _)
\* last position of the run that holds position e, whose largest xmax is hi
RunEnd(sb, e, hi, thr) ==
    IF e < Len(sb) /\ sb[e + 1].xmin.v <= hi + thr
    THEN RunEnd(sb, e + 1, SetMax({hi, sb[e + 1].xmax.v}), thr)
    ELSE e

RECURSIVE RefRuns(_, _, _)
\* the maximal consecutive runs of the sorted list, from position s on
RefRuns(sb, s, thr) ==
    IF s > Len(sb) THEN <<>>
    ELSE LET e == RunEnd(sb, s, sb[s].xmax.v, thr)
         IN  <<[k \in 1..(e - s + 1) |-> s + k - 1]>> \o RefRuns(sb, e + 1, thr)

\* box (compared by value) is the bounding envelope of the positions run of sb
IsEnvelope(box, sb, run) ==
    /\ box.xmin.v = SetMin({sb[run[k]].xmin.v : k \in DOMAIN run})
    /\ box.ymin.v = SetMin({sb[run[k]].ymin.v : k \in DOMAIN run})
    /\ box.xmax.v = SetMax({sb[run[k]].xmax.v : k \in DOMAIN run})
    /\ box.ymax.v = SetMax({sb[run[k]].ymax.v : k \in DOMAIN run})

(***************************************************************************)
(* C1.  merge_boxes partitions its input: for every image and every        *)
(* overlap_threshold >= 0, each input box is in exactly one group built by *)
(* the sweep; each group of two or more boxes gave exactly one entry of    *)
(* 'grouped_axles' and each group of one box is exactly one entry of       *)
(* 'single_axle'.  No box is dropped, none is counted twice.               *)
(***************************************************************************)
C1_Partition ==
    pc = "returned" =>
        \A image_id \in DOMAIN single_axle_boxes_by_image :
            LET boxes == single_axle_boxes_by_image[image_id]
                out == merged_boxes_by_image[image_id]
                sw == sweep[image_id]
                lone == LoneGroups(sw.groups)
            IN  /\ \A p \in DOMAIN boxes : Occurrences(sw, p) = 1
                /\ \A m \in DOMAIN sw.groups : Len(sw.groups[m]) >= 1
                /\ Len(out.grouped_axles) = Len(MultiGroups(sw.groups))
                /\ Len(out.single_axle) = Len(lone)
                /\ \A k \in DOMAIN lone : out.single_axle[k] = boxes[sw.order[lone[k][1]]]

\* an image with two boxes of equal xmin, a nested box, a group and a single
C1_Witness ==
    /\ pc = "returned"
    /\ overlap_threshold = 0
    /\ \E image_id \in DOMAIN single_axle_boxes_by_image :
          LET boxes == single_axle_boxes_by_image[image_id]
              out == merged_boxes_by_image[image_id]
          IN  /\ Len(out.grouped_axles) = 1
              /\ Len(out.single_axle) = 1
              /\ \E p, q \in DOMAIN boxes :
                    /\ p # q
                    /\ boxes[p].xmin.v = boxes[q].xmin.v
                    /\ boxes[q].xmax.v < boxes[p].xmax.v

(***************************************************************************)
(* C2.  merge_boxes equals the growing-envelope reference: on the boxes    *)
(* stably sorted by xmin the groups are the maximal consecutive runs in    *)
(* which each next box has xmin <= (largest xmax of the run so far) +      *)
(* overlap_threshold; a run of two or more boxes gives one 'grouped_axles' *)
(* box, the envelope of its members, and a run of one box is returned in   *)
(* 'single_axle' unchanged.  A{0,10}, B{10.005,20} merge into 0-20 under   *)
(* threshold 0.01, A{0,10}, B{10.02,20} do not.                            *)
(***************************************************************************)
C2_GrowingEnvelope ==
    pc = "returned" =>
        /\ \A image_id \in DOMAIN single_axle_boxes_by_image :
            LET boxes == single_axle_boxes_by_image[image_id]
                out == merged_boxes_by_image[image_id]
                sw == sweep[image_id]
                sb == [k \in DOMAIN boxes |-> boxes[sw.order[k]]]
                runs == RefRuns(sb, 1, overlap_threshold)
                multi == MultiGroups(runs)
                lone == LoneGroups(runs)
            IN  /\ IsStableOrder(boxes, sw.order)
                /\ sw.groups = runs
                /\ Len(out.grouped_axles) = Len(multi)
                /\ \A m \in DOMAIN multi : IsEnvelope(out.grouped_axles[m], sb, multi[m])
                /\ out.single_axle = [k \in DOMAIN lone |-> sb[lone[k][1]]]
        /\ (single_axle_boxes_by_image = Scenario1
                /\ overlap_threshold = DefaultOverlapThreshold)
            => /\ Len(merged_boxes_by_image["a"].grouped_axles) = 1
               /\ merged_boxes_by_image["a"].grouped_axles[1].xmin.v = 0
               /\ merged_boxes_by_image["a"].grouped_axles[1].xmax.v = 4000
               /\ merged_boxes_by_image["a"].single_axle = <<>>
        /\ (single_axle_boxes_by_image = Scenario2
                /\ overlap_threshold = DefaultOverlapThreshold)
            => /\ merged_boxes_by_image["a"].grouped_axles = <<>>
               /\ merged_boxes_by_image["a"].single_axle = <<ScenarioA, ScenarioFarB>>

\* a chain of three: the third box joins because of the second, being farther
\* than the threshold from the seed (and the input is not already sorted)
C2_Witness ==
    /\ pc = "returned"
    /\ \E image_id \in DOMAIN single_axle_boxes_by_image :
          LET boxes == single_axle_boxes_by_image[image_id]
              sw == sweep[image_id]
          IN  /\ sw.order # [k \in DOMAIN boxes |-> k]
              /\ \E m \in DOMAIN sw.groups :
                    /\ Len(sw.groups[m]) = 3
                    /\ boxes[sw.order[sw.groups[m][3]]].xmin.v >
                          boxes[sw.order[sw.groups[m][1]]].xmax.v + overlap_threshold

(***************************************************************************)
(* update_annotations, lines 135-174, and merge_axle_trees, lines 178-209. *)
(* A region is [tags, region_type, region]; an image is                    *)
(* [location, annotated_regions]; a document is [images].                  *)
(***************************************************************************)
HasTag(region, tag) == \E k \in DOMAIN region.tags : region.tags[k] = tag

\* line 153: the regions copied through
IsNotSingleAxle(region) == ~HasTag(region, "single_axle")
IsKept(region) ==
    ~HasTag(region, "single_axle") /\ ~HasTag(region, "grouped_axles")

\* {k: float(v) for k, v in box.items()}, lines 162 and 169
FloatBox(b) ==
    [xmin |-> float(b.xmin), ymin |-> float(b.ymin),
     xmax |-> float(b.xmax), ymax |-> float(b.ymax)]

\* lines 159-163 and 166-170
NewRegion(tag, b) ==
    [tags |-> <<tag>>, region_type |-> "Box", region |-> FloatBox(b)]

\* lines 149-172 for one image
UpdateImage(image, merged) ==
    LET kept == SelectSeq(image.annotated_regions, IsKept)
        updated_regions ==
            IF image.location \in DOMAIN merged
            THEN LET m == merged[image.location]
                 IN  kept
                     \o [k \in DOMAIN m.grouped_axles |->
                            NewRegion("grouped_axles", m.grouped_axles[k])]
                     \o [k \in DOMAIN m.single_axle |->
                            NewRegion("single_axle", m.single_axle[k])]
            ELSE kept
    IN  [image EXCEPT !.annotated_regions = updated_regions]

update_annotations(doc, merged) ==
    [doc EXCEPT !.images = [k \in DOMAIN doc.images |-> UpdateImage(doc.images[k], merged)]]

\* lines 195-200: the dictionary keeps, for each location, the boxes of the
\* last image that has it
SingleAxleBoxes(doc) ==
    [image_id \in {doc.images[k].location : k \in DOMAIN doc.images} |->
        LET last == SetMax({k \in DOMAIN doc.images : doc.images[k].location = image_id})
            single == SelectSeq(doc.images[last].annotated_regions,
                                LAMBDA region : HasTag(region, "single_axle"))
        IN  [k \in DOMAIN single |-> single[k].region]]

\* line 192
HasImages(doc) == "images" \in DOMAIN doc

\* lines 195-209
merge_axle_trees(doc) ==
    update_annotations(doc, merge_boxes(SingleAxleBoxes(doc), DefaultOverlapThreshold))

(***************************************************************************)
(* Documents given to merge_axle_trees.                                    *)
(***************************************************************************)
MaxRegions == 3     \* regions of a document, over all its images
MaxCalls == 2       \* merge_axle_trees is run again on its own output

\* [0,1] as ints; [1.005,2] within 0.01 of it; [5,6] far from both
DocBoxSet ==
    {MBox(IntNum(0), IntNum(0), IntNum(1), IntNum(1)),
     MBox(FloatNum(201), FloatNum(100), FloatNum(400), FloatNum(300)),
     MBox(FloatNum(1000), FloatNum(0), FloatNum(1200), FloatNum(200))}

DocRegions ==
    [tags : {<<"car">>, <<"single_axle">>, <<"grouped_axles">>},
     region_type : {"Box"},
     region : DocBoxSet]

Image(location, regions) == [location |-> location, annotated_regions |-> regions]

\* one image holding the regions r, or two images sharing them: the first
\* `cut` regions in image "a", the others in a second image
OneImage(r) == [images |-> <<Image("a", r)>>]
TwoImages(r, cut, loc2) ==
    [images |-> <<Image("a", SubSeq(r, 1, cut)), Image(loc2, SubSeq(r, cut + 1, Len(r)))>>]

DocumentsUpTo(n) ==
    {OneImage(r) : r \in SeqsUpTo(DocRegions, n)}
    \cup {TwoImages(x[1], x[2], x[3]) :
            x \in {y \in SeqsUpTo(DocRegions, n) \X (0..n) \X {"a", "b"} : y[2] <= Len(y[1])}}

\* a document without the top-level image list
NoImagesDocument == [info |-> "none"]

InitDoc ==
    /\ pc = "call"
    /\ annotation \in DocumentsUpTo(MaxRegions) \cup {NoImagesDocument}
    /\ before = None
    /\ calls = 0
    /\ raised = None
    /\ IdleMerge /\ IdleEval /\ IdlePr

\* merge_axle_trees(annotation), the document being updated in place
MergeAxleTrees ==
    /\ pc = "call"
    /\ calls < MaxCalls
    /\ HasImages(annotation)
    /\ before' = annotation
    /\ annotation' = merge_axle_trees(annotation)
    /\ calls' = calls + 1
    /\ UNCHANGED <<pc, raised, mergeVars, evalVars, prVars>>

\* lines 192-193: raise ValueError
MergeAxleTreesNoImages ==
    /\ pc = "call"
    /\ ~HasImages(annotation)
    /\ pc' = "raised"
    /\ raised' = "ValueError"
    /\ UNCHANGED <<annotation, before, calls, mergeVars, evalVars, prVars>>

NextDoc == MergeAxleTrees \/ MergeAxleTreesNoImages

SpecDoc == InitDoc /\ [][NextDoc]_vars

(***************************************************************************)
(* C3.  Idempotence under re-grouping: when merge_axle_trees runs on a     *)
(* document that is itself the output of merge_axle_trees, every           *)
(* 'grouped_axles' region of that document is present, with the same       *)
(* coordinates, in the same image of the output document.                  *)
(***************************************************************************)
C3_GroupedRegionsKept ==
    calls >= 2 =>
        \A i \in DOMAIN before.images :
            \A k \in DOMAIN before.images[i].annotated_regions :
                LET region == before.images[i].annotated_regions[k]
                IN  HasTag(region, "grouped_axles") =>
                        \E l \in DOMAIN annotation.images[i].annotated_regions :
                            annotation.images[i].annotated_regions[l] = region

(***************************************************************************)
(* C9.  The document update leaves non-axle regions alone: after           *)
(* merge_axle_trees, in every image the regions carrying neither the       *)
(* 'single_axle' nor the 'grouped_axles' tag are the same regions in the   *)
(* same order as before the call, they form a prefix of the new region     *)
(* list, and the axle regions written by the call come after them,         *)
(* 'grouped_axles' first, then 'single_axle'.                              *)
(***************************************************************************)
NonAxle(regions) ==
    SelectSeq(regions, LAMBDA region :
        ~HasTag(region, "single_axle") /\ ~HasTag(region, "grouped_axles"))

C9_NonAxleUntouched ==
    calls >= 1 =>
        /\ Len(annotation.images) = Len(before.images)
        /\ \A i \in DOMAIN before.images :
            LET old == before.images[i].annotated_regions
                new == annotation.images[i].annotated_regions
                n == Len(NonAxle(old))
            IN  /\ annotation.images[i].location = before.images[i].location
                /\ NonAxle(new) = NonAxle(old)
                /\ Len(new) >= n
                /\ SubSeq(new, 1, n) = NonAxle(old)
                /\ \A k \in (n + 1)..Len(new) :
                      new[k].tags \in {<<"grouped_axles">>, <<"single_axle">>}
                /\ \A k, l \in (n + 1)..Len(new) :
                      k < l => ~(new[k].tags = <<"single_axle">>
                                    /\ new[l].tags = <<"grouped_axles">>)

\* an image whose non-axle region came after axle regions, with a newly
\* grouped box written by the call
C9_Witness ==
    /\ calls = 1
    /\ \E i \in DOMAIN before.images :
          LET old == before.images[i].annotated_regions
              new == annotation.images[i].annotated_regions
          IN  /\ Len(old) = 3
              /\ HasTag(old[1], "single_axle")
              /\ HasTag(old[2], "grouped_axles")
              /\ HasTag(old[3], "car")
              /\ \E k \in DOMAIN new : new[k].tags = <<"single_axle">>

(***************************************************************************)
(* evaluate_perf.py: fractions.  A Python float that is a quotient of two  *)
(* small integers is the fraction [n, d] in lowest terms.                  *)
(***************************************************************************)
RECURSIVE Gcd(_, _)
Gcd(a, b) == IF b = 0 THEN a ELSE Gcd(b, a % b)

\* a / b for integers a >= 0, b > 0
Frac(a, b) == LET g == Gcd(a, b) IN [n |-> a \div g, d |-> b \div g]

Zero == [n |-> 0, d |-> 1]

Less(a, b) == a.n * b.d < b.n * a.d
Leq(a, b) == a.n * b.d <= b.n * a.d

(***************************************************************************)
(* calculate_iou, lines 59-84.  shapely's box(xmin, ymin, xmax, ymax) with *)
(* xmin <= xmax and ymin <= ymax is the rectangle; the area of the union   *)
(* of two rectangles is the sum of their areas less the intersection's.    *)
(***************************************************************************)
EBox(x1, y1, x2, y2) == [xmin |-> x1, ymin |-> y1, xmax |-> x2, ymax |-> y2]

Area(b) == (b.xmax - b.xmin) * (b.ymax - b.ymin)

IntersectionArea(b1, b2) ==
    LET w == SetMin({b1.xmax, b2.xmax}) - SetMax({b1.xmin, b2.xmin})
        h == SetMin({b1.ymax, b2.ymax}) - SetMax({b1.ymin, b2.ymin})
    IN  IF w > 0 /\ h > 0 THEN w * h ELSE 0

calculate_iou(box1, box2) ==
    LET intersection_area == IntersectionArea(box1, box2)
        union_area == Area(box1) + Area(box2) - intersection_area
    IN  IF union_area = 0 THEN Zero ELSE Frac(intersection_area, union_area)

(***************************************************************************)
(* evaluate_image, lines 90-150.  A ground-truth region is [region], a     *)
(* prediction region is [region, score]; an image is                       *)
(* [location, annotated_regions].                                          *)
(***************************************************************************)
\* best_gt_idx = None, line 130: no position of gt_boxes
NoneIdx == 0

\* line 115: region.get("score", 0) >= threshold
ScoreAtMost(score, t) == Leq(score, t)
PassesThreshold(score, t) == Leq(t, score)

RECURSIVE InsertAscending(_, _, _, _)
InsertAscending(regions, order, p, k) ==
    IF k > Len(order) THEN Append(order, p)
    ELSE IF Less(regions[p].score, regions[order[k]].score)
         THEN SubSeq(order, 1, k - 1) \o <<p>> \o SubSeq(order, k, Len(order))
         ELSE InsertAscending(regions, order, p, k + 1)

RECURSIVE InsertByScore(_, _, _, _)
\* insert position p into the sorted prefix `order`, after every position
\* whose score is not smaller: list.sort(reverse=True) is stable
InsertByScore(regions, order, p, k) ==
    IF k > Len(order) THEN Append(order, p)
    ELSE IF Less(regions[order[k]].score, regions[p].score)
         THEN SubSeq(order, 1, k - 1) \o <<p>> \o SubSeq(order, k, Len(order))
         ELSE InsertByScore(regions, order, p, k + 1)

RECURSIVE ScoreOrder(_, _, _)
\* the positions in `kept` of the regions, sorted by score, highest first
ScoreOrder(regions, order, kept) ==
    IF kept = <<>> THEN order
    ELSE ScoreOrder(regions, InsertByScore(regions, order, Head(kept), 1), Tail(kept))

\* lines 113-116: positions of predictions' regions kept by the threshold, in
\* the order the loop of line 128 visits them
PredOrder(regions, t) ==
    ScoreOrder(regions, <<>>,
               SelectSeq([k \in DOMAIN regions |-> k],
                         LAMBDA k : PassesThreshold(regions[k].score, t)))

RECURSIVE BestMatch(_, _, _, _, _, _)
\* lines 133-140: for idx, gt in enumerate(gt_boxes)
BestMatch(pred, gt_boxes, matched_gt, idx, best_iou, best_gt_idx) ==
    IF idx > Len(gt_boxes)
    THEN [best_iou |-> best_iou, best_gt_idx |-> best_gt_idx]
    ELSE IF idx \in matched_gt
    THEN BestMatch(pred, gt_boxes, matched_gt, idx + 1, best_iou, best_gt_idx)
    ELSE LET iou_value == calculate_iou(pred, gt_boxes[idx])
         IN  IF Less(best_iou, iou_value)
             THEN BestMatch(pred, gt_boxes, matched_gt, idx + 1, iou_value, idx)
             ELSE BestMatch(pred, gt_boxes, matched_gt, idx + 1, best_iou, best_gt_idx)

\* line 143
IsMatch(best, matched_gt, jmin) ==
    Leq(jmin, best.best_iou) /\ best.best_gt_idx \notin matched_gt

\* line 146
FalseNegativesKept(false_negatives) == false_negatives
FalseNegativesAfterMatch(false_negatives) == false_negatives - 1

RECURSIVE MatchLoop(_, _, _, _, _, _)
\* lines 128-148: for pred, _ in pred_boxes.  st is the loop's state:
\* the three counters, matched_gt, and the decision taken for each prediction
MatchLoop(regions, order, gt_boxes, jmin, p, st) ==
    IF p > Len(order) THEN st
    ELSE LET best == BestMatch(regions[order[p]].region, gt_boxes, st.matched_gt,
                               1, Zero, NoneIdx)
         IN  IF IsMatch(best, st.matched_gt, jmin)
             THEN MatchLoop(regions, order, gt_boxes, jmin, p + 1,
                    [true_positives |-> st.true_positives + 1,
                     false_positives |-> st.false_positives,
                     false_negatives |-> FalseNegativesAfterMatch(st.false_negatives),
                     matched_gt |-> st.matched_gt \cup {best.best_gt_idx},
                     decisions |-> Append(st.decisions,
                        [pred |-> order[p], gt |-> best.best_gt_idx, match |-> TRUE])])
             ELSE MatchLoop(regions, order, gt_boxes, jmin, p + 1,
                    [st EXCEPT !.false_positives = @ + 1,
                               !.decisions = Append(@,
                        [pred |-> order[p], gt |-> best.best_gt_idx, match |-> FALSE])])

\* lines 109-150, with the decisions of the loop beside the returned counts
EvaluateImageRun(gt_img, pred_img, t, jmin) ==
    LET gt_boxes == [k \in DOMAIN gt_img.annotated_regions |->
                        gt_img.annotated_regions[k].region]
        regions == pred_img.annotated_regions
        order == PredOrder(regions, t)
    IN  IF Len(gt_boxes) = 0 \/ Len(order) = 0
        THEN [true_positives |-> 0,
              false_positives |-> Len(order),
              false_negatives |-> Len(gt_boxes),
              matched_gt |-> {},
              decisions |-> <<>>]
        ELSE MatchLoop(regions, order, gt_boxes, jmin, 1,
                [true_positives |-> 0,
                 false_positives |-> 0,
                 false_negatives |-> Len(gt_boxes),
                 matched_gt |-> {},
                 decisions |-> <<>>])

\* the returned (true_positives, false_negatives, false_positives)
evaluate_image(gt_img, pred_img, t, jmin) ==
    LET run == EvaluateImageRun(gt_img, pred_img, t, jmin)
    IN  [tp |-> run.true_positives, fn |-> run.false_negatives, fp |-> run.false_positives]

(***************************************************************************)
(* Inputs of evaluate_image.                                               *)
(***************************************************************************)
MaxGt == 2          \* ground-truth boxes of the image given to evaluate_image
MaxPreds == 2       \* prediction regions of the image given to evaluate_image

\* three boxes of height 1 on 0..2 (IoU 0, 1/2 or 1) and a box of area 0
EvalGtBoxSet ==
    {EBox(0, 0, 1, 1), EBox(0, 0, 2, 1), EBox(1, 0, 2, 1)}
EvalBoxSet == EvalGtBoxSet \cup {EBox(0, 0, 0, 0)}

ScoreSet == {Frac(1, 2), Frac(1, 1)}
ThresholdSet == {Frac(0, 2), Frac(1, 2), Frac(2, 2)}
\* Jaccard_min=0.5, line 90, and the two ends of [0, 1]
JaccardSet == {Zero, Frac(1, 2), Frac(1, 1)}

GtImages(n) ==
    {Image("a", r) : r \in SeqsUpTo([region : EvalGtBoxSet], n)}
PredImages(n) ==
    {Image("a", r) : r \in SeqsUpTo([region : EvalBoxSet, score : ScoreSet], n)}

InitEval ==
    /\ pc = "call"
    /\ annotations \in GtImages(MaxGt)
    /\ predictions \in PredImages(MaxPreds)
    /\ threshold = None
    /\ Jaccard_min = None
    /\ outcome = None
    /\ decisions = None
    /\ IdleMerge /\ IdleDoc /\ IdlePr

\* evaluate_image(annotations, predictions, threshold, Jaccard_min)
EvaluateImage ==
    /\ pc = "call"
    /\ pc' = "returned"
    /\ \E t \in ThresholdSet, jmin \in JaccardSet :
          /\ threshold' = t
          /\ Jaccard_min' = jmin
          /\ outcome' = evaluate_image(annotations, predictions, t, jmin)
          /\ decisions' = EvaluateImageRun(annotations, predictions, t, jmin).decisions
    /\ UNCHANGED <<annotations, predictions, mergeVars, docVars, prVars>>

NextEval == EvaluateImage

SpecEval == InitEval /\ [][NextEval]_vars

(***************************************************************************)
(* Helpers of the claims about evaluate_image.                             *)
(***************************************************************************)
\* positions of the predictions whose score passes the threshold
Filtered == {k \in DOMAIN predictions.annotated_regions :
                Leq(threshold, predictions.annotated_regions[k].score)}

\* those of them whose IoU with ground-truth box g reaches Jaccard_min
Overlapping(g) ==
    {k \in Filtered :
        Leq(Jaccard_min, calculate_iou(predictions.annotated_regions[k].region,
                                       annotations.annotated_regions[g].region))}

(***************************************************************************)
(* C4.  Greedy highest-confidence-first matching: with iou_min > 0 and     *)
(* exactly one ground-truth box, if some prediction with score >=          *)
(* threshold has IoU >= iou_min with that box, then TP = 1, FN = 0, the    *)
(* prediction credited with the match has the highest score among those    *)
(* predictions, and every other filtered prediction is counted as FP.      *)
(***************************************************************************)
C4_HighestConfidenceFirst ==
    (/\ pc = "returned"
     /\ Less(Zero, Jaccard_min)
     /\ Len(annotations.annotated_regions) = 1
     /\ Overlapping(1) # {})
    => /\ outcome.tp = 1
       /\ outcome.fn = 0
       /\ outcome.fp = Cardinality(Filtered) - 1
       /\ {decisions[p].pred : p \in DOMAIN decisions} = Filtered
       /\ \E p \in DOMAIN decisions :
             /\ decisions[p].match
             /\ decisions[p].gt = 1
             /\ decisions[p].pred \in Overlapping(1)
             /\ \A k \in Overlapping(1) :
                   Leq(predictions.annotated_regions[k].score,
                       predictions.annotated_regions[decisions[p].pred].score)
             /\ \A q \in DOMAIN decisions : q # p => ~decisions[q].match

\* two overlapping predictions of different scores, the lower-scored one first
\* in the list
C4_Witness ==
    /\ pc = "returned"
    /\ Less(Zero, Jaccard_min)
    /\ Len(annotations.annotated_regions) = 1
    /\ \E k, l \in Overlapping(1) :
          /\ k < l
          /\ Less(predictions.annotated_regions[k].score,
                  predictions.annotated_regions[l].score)

(***************************************************************************)
(* C10.  Matching saturation: the triple (TP, FN, FP) returned by          *)
(* evaluate_image satisfies TP + FN = number of ground-truth boxes and     *)
(* TP + FP = number of predictions with score >= threshold, on the early   *)
(* return and on the matching path.                                        *)
(***************************************************************************)
C10_Saturation ==
    pc = "returned" =>
        /\ outcome.tp + outcome.fn = Len(annotations.annotated_regions)
        /\ outcome.tp + outcome.fp = Cardinality(Filtered)

\* the matching path with a match and a false positive
C10_Witness ==
    /\ pc = "returned"
    /\ outcome.tp = 1
    /\ outcome.fp = 1
    /\ outcome.fn = 1

\* the early return with ground truth and no prediction kept
C10_WitnessEarly ==
    /\ pc = "returned"
    /\ Len(annotations.annotated_regions) = 2
    /\ Len(predictions.annotated_regions) = 2
    /\ Filtered = {}

(***************************************************************************)
(* evaluate_pr_naive, lines 154-193, and evaluate_pr, lines 197-260.       *)
(* A document is [images]; a result record is                              *)
(* [precision, recall, threshold].                                         *)
(***************************************************************************)
RECURSIVE SumOf(_)
\* a running total over the images, lines 180-182 and 248-250
SumOf(s) == IF s = <<>> THEN 0 ELSE Head(s) + SumOf(Tail(s))

\* lines 184 and 253: total_tp / (total_tp + total_fp) if ... > 0 else 0
FalsePositiveShare(total_tp, total_fp) ==
    IF total_tp + total_fp > 0 THEN Frac(total_fp, total_tp + total_fp) ELSE Zero
Precision(total_tp, total_fp) ==
    IF total_tp + total_fp > 0 THEN Frac(total_tp, total_tp + total_fp) ELSE Zero

\* lines 185 and 254
Recall(total_tp, total_fn) ==
    IF total_tp + total_fn > 0 THEN Frac(total_tp, total_tp + total_fn) ELSE Zero

\* lines 169-191 and 229-256: the totals of one threshold and its record
Totals(counts, t) ==
    LET total_tp == SumOf([k \in DOMAIN counts |-> counts[k].tp])
        total_fp == SumOf([k \in DOMAIN counts |-> counts[k].fp])
        total_fn == SumOf([k \in DOMAIN counts |-> counts[k].fn])
    IN  [threshold |-> t,
         precision |-> Precision(total_tp, total_fp),
         recall |-> Recall(total_tp, total_fn),
         total_tp |-> total_tp, total_fp |-> total_fp, total_fn |-> total_fn,
         counts |-> counts]

ResultRecord(tot) ==
    [precision |-> tot.precision, recall |-> tot.recall, threshold |-> tot.threshold]

\* line 171: zip(annotations['images'], predictions['images'])
Zip(s1, s2) ==
    [k \in 1..SetMin({Len(s1), Len(s2)}) |-> <<s1[k], s2[k]>>]

\* lines 166-193; thresholds = [i / N for i in range(N + 1)]
evaluate_pr_naive(gt, pred, n, jmin) ==
    [i \in 1..(n + 1) |->
        LET t == Frac(i - 1, n)
            pairs == Zip(gt.images, pred.images)
        IN  ResultRecord(Totals(
                [k \in DOMAIN pairs |-> evaluate_image(pairs[k][1], pairs[k][2], t, jmin)],
                t))]

\* lines 220-226: for each location, the (region, score) pairs of the last
\* prediction image that has it, sorted by score, highest first
SortedPredictions(pred) ==
    [location \in {pred.images[k].location : k \in DOMAIN pred.images} |->
        LET last == SetMax({k \in DOMAIN pred.images : pred.images[k].location = location})
            regions == pred.images[last].annotated_regions
            order == ScoreOrder(regions, <<>>, [k \in DOMAIN regions |-> k])
        IN  [k \in DOMAIN order |-> regions[order[k]]]]

\* lines 231-250 for one threshold: the counts of every ground-truth image
ImageCounts(gt, sorted_predictions, t, jmin) ==
    [k \in DOMAIN gt.images |->
        LET gt_img == gt.images[k]
            location == gt_img.location
            \* line 234: sorted_predictions.get(location, [])
            pred_boxes == IF location \in DOMAIN sorted_predictions
                          THEN sorted_predictions[location] ELSE <<>>
            \* line 238
            filtered_pred_boxes ==
                SelectSeq(pred_boxes, LAMBDA r : PassesThreshold(r.score, t))
        IN  evaluate_image(gt_img, [annotated_regions |-> filtered_pred_boxes], t, jmin)]

RECURSIVE InsertByThreshold(_, _, _)
\* results_list.sort(key=lambda x: x['threshold']), line 259: stable insertion
InsertByThreshold(sorted, rec, k) ==
    IF k > Len(sorted) THEN Append(sorted, rec)
    ELSE IF Less(rec.threshold, sorted[k].threshold)
         THEN SubSeq(sorted, 1, k - 1) \o <<rec>> \o SubSeq(sorted, k, Len(sorted))
         ELSE InsertByThreshold(sorted, rec, k + 1)

RECURSIVE SortByThreshold(_, _, _)
SortByThreshold(list, sorted, k) ==
    IF k > Len(list) THEN sorted
    ELSE SortByThreshold(list, InsertByThreshold(sorted, list[k], 1), k + 1)

\* lines 215-259: the thresholds are visited from N/N down to 0/N, the list
\* is sorted by threshold at the end.  Each entry holds the totals of its
\* threshold beside the fields of the returned record.
EvaluatePrRun(gt, pred, n, jmin) ==
    LET sorted_predictions == SortedPredictions(pred)
        descending ==
            [i \in 1..(n + 1) |->
                LET t == Frac(n + 1 - i, n)
                IN  Totals(ImageCounts(gt, sorted_predictions, t, jmin), t)]
    IN  SortByThreshold(descending, <<>>, 1)

evaluate_pr(gt, pred, n, jmin) ==
    LET run == EvaluatePrRun(gt, pred, n, jmin)
    IN  [k \in DOMAIN run |-> ResultRecord(run[k])]

(***************************************************************************)
(* Documents given to evaluate_pr_naive and evaluate_pr: no image, one     *)
(* image, or two images with different locations in either order.          *)
(***************************************************************************)
MaxDocGt == 1       \* ground-truth boxes of a document, over all its images
MaxDocPreds == 2    \* prediction regions of a document, over all its images
MaxN == 2           \* N ranges over 1..MaxN

\* two boxes that do not overlap
PrBoxSet == {EBox(0, 0, 1, 1), EBox(1, 0, 2, 1)}

\* Jaccard_min=0.5, lines 154 and 197
DefaultJaccardMin == Frac(1, 2)

Split(r, cut, loc1, loc2) ==
    [images |-> <<Image(loc1, SubSeq(r, 1, cut)), Image(loc2, SubSeq(r, cut + 1, Len(r)))>>]

DocsOf(Regions, n) ==
    {[images |-> <<>>]}
    \cup {[images |-> <<Image(loc, r)>>] : r \in SeqsUpTo(Regions, n), loc \in {"a", "b"}}
    \cup {Split(x[1], x[2], x[3][1], x[3][2]) :
            x \in {y \in SeqsUpTo(Regions, n) \X (0..n) \X {<<"a", "b">>, <<"b", "a">>} :
                    y[2] <= Len(y[1])}}

InitPr ==
    /\ pc = "call"
    /\ gt_doc \in DocsOf([region : PrBoxSet], MaxDocGt)
    /\ pred_doc \in DocsOf([region : PrBoxSet, score : ScoreSet], MaxDocPreds)
    /\ N \in 1..MaxN
    /\ naive_results = None
    /\ results_list = None
    /\ totals = None
    /\ IdleMerge /\ IdleDoc /\ IdleEval

\* line 288: evaluate_pr_naive(groundtruth, predictions, N, Jaccard_min=0.5)
EvaluatePrNaive ==
    /\ pc = "call"
    /\ pc' = "naive"
    /\ naive_results' = evaluate_pr_naive(gt_doc, pred_doc, N, DefaultJaccardMin)
    /\ UNCHANGED <<gt_doc, pred_doc, N, results_list, totals, mergeVars, docVars, evalVars>>

\* line 290: evaluate_pr(groundtruth, predictions, N, Jaccard_min=0.5)
EvaluatePr ==
    /\ pc = "naive"
    /\ pc' = "returned"
    /\ results_list' = evaluate_pr(gt_doc, pred_doc, N, DefaultJaccardMin)
    /\ totals' = EvaluatePrRun(gt_doc, pred_doc, N, DefaultJaccardMin)
    /\ UNCHANGED <<gt_doc, pred_doc, N, naive_results, mergeVars, docVars, evalVars>>

NextPr == EvaluatePrNaive \/ EvaluatePr

SpecPr == InitPr /\ [][NextPr]_vars

(***************************************************************************)
(* Helpers of the claims about evaluate_pr.                                *)
(***************************************************************************)
Locations(doc) == {doc.images[k].location : k \in DOMAIN doc.images}

\* number of regions of the image whose score is >= t
KeptBy(image, t) ==
    Cardinality({k \in DOMAIN image.annotated_regions :
                    Leq(t, image.annotated_regions[k].score)})

\* the predictions with score >= t of the images only the prediction
\* document has
PredictionOnlyCount(t) ==
    SumOf([k \in DOMAIN pred_doc.images |->
            IF pred_doc.images[k].location \in Locations(gt_doc)
            THEN 0 ELSE KeptBy(pred_doc.images[k], t)])

(***************************************************************************)
(* C5.  Precision monotonicity, as claimed: for any two records of the     *)
(* list returned by evaluate_pr with thresholds t1 < t2,                   *)
(* precision(t1) <= precision(t2).                                         *)
(***************************************************************************)
C5_PrecisionNonDecreasing ==
    pc = "returned" =>
        \A k, l \in DOMAIN results_list :
            Less(results_list[k].threshold, results_list[l].threshold)
                => Leq(results_list[k].precision, results_list[l].precision)

(***************************************************************************)
(* C5 as amended.  For any two records of the list returned by evaluate_pr *)
(* with thresholds t1 < t2 between which no true positive is lost (the     *)
(* corpus TP at t2 equals the corpus TP at t1),                            *)
(* precision(t1) <= precision(t2).                                         *)
(***************************************************************************)
C5_PrecisionNonDecreasingWhileTpKept ==
    pc = "returned" =>
        \A k, l \in DOMAIN results_list :
            (/\ Less(results_list[k].threshold, results_list[l].threshold)
             /\ totals[k].threshold = results_list[k].threshold
             /\ totals[l].threshold = results_list[l].threshold
             /\ totals[k].total_tp = totals[l].total_tp)
                => Leq(results_list[k].precision, results_list[l].precision)

\* raising the threshold drops a false positive and keeps the true positive
C5_Witness ==
    /\ pc = "returned"
    /\ \E k, l \in DOMAIN results_list :
          /\ Less(results_list[k].threshold, results_list[l].threshold)
          /\ totals[k].total_tp = 1
          /\ totals[l].total_tp = 1
          /\ totals[l].total_fp < totals[k].total_fp
          /\ Less(results_list[k].precision, results_list[l].precision)

(***************************************************************************)
(* C6.  TP and recall monotonicity: for any two thresholds t1 < t2 the TP  *)
(* evaluate_image returns for an image at t2 never exceeds its TP at t1,   *)
(* and the recall reported by evaluate_pr is non-increasing in the         *)
(* threshold.                                                              *)
(***************************************************************************)
C6_TpAndRecallNonIncreasing ==
    pc = "returned" =>
        /\ Len(totals) = Len(results_list)
        /\ \A k, l \in DOMAIN results_list :
            Less(results_list[k].threshold, results_list[l].threshold)
                => /\ totals[k].threshold = results_list[k].threshold
                   /\ totals[l].threshold = results_list[l].threshold
                   /\ \A i \in DOMAIN gt_doc.images :
                         totals[l].counts[i].tp <= totals[k].counts[i].tp
                   /\ totals[l].total_tp <= totals[k].total_tp
                   /\ Leq(results_list[l].recall, results_list[k].recall)

\* a true positive, and with it recall, is lost when the threshold rises
C6_Witness ==
    /\ pc = "returned"
    /\ \E k, l \in DOMAIN results_list :
          /\ Less(results_list[k].threshold, results_list[l].threshold)
          /\ totals[l].total_tp < totals[k].total_tp
          /\ Less(results_list[l].recall, results_list[k].recall)

(***************************************************************************)
(* C7.  Missing image pairing in the threshold sweep: for every threshold, *)
(* an image only the ground-truth document has adds its ground-truth box   *)
(* count to the corpus FN, an image only the prediction document has adds  *)
(* its count of predictions with score >= threshold to the corpus FP, each *)
(* with zero TP.                                                           *)
(***************************************************************************)
C7_MissingPairingCounted ==
    pc = "returned" =>
        \A k \in DOMAIN totals :
            /\ \A i \in DOMAIN gt_doc.images :
                  gt_doc.images[i].location \notin Locations(pred_doc)
                      => totals[k].counts[i] =
                            [tp |-> 0, fn |-> Len(gt_doc.images[i].annotated_regions),
                             fp |-> 0]
            /\ totals[k].total_tp = SumOf([i \in DOMAIN gt_doc.images |-> totals[k].counts[i].tp])
            /\ totals[k].total_fn = SumOf([i \in DOMAIN gt_doc.images |-> totals[k].counts[i].fn])
            /\ totals[k].total_fp =
                  SumOf([i \in DOMAIN gt_doc.images |-> totals[k].counts[i].fp])
                  + PredictionOnlyCount(totals[k].threshold)

(***************************************************************************)
(* C8.  Optimized/naive equivalence: for documents whose images have       *)
(* unique locations, in any order and of any count on either side,         *)
(* evaluate_pr returns exactly the list of records evaluate_pr_naive       *)
(* returns.                                                                *)
(***************************************************************************)
C8_OptimizedEqualsNaive ==
    pc = "returned" => results_list = naive_results

(***************************************************************************)
(* C11.  Count bounds in evaluate_image: for every iou_min in [0, 1], 0    *)
(* included, each true positive is a distinct real ground-truth box, so    *)
(* 0 <= TP <= number of ground-truth boxes, FN >= 0 and FP >= 0; a         *)
(* prediction whose IoU with every unmatched ground-truth box is 0         *)
(* (best_gt_idx stays None) is never counted as a true positive.           *)
(***************************************************************************)
C11_CountBounds ==
    pc = "returned" =>
        /\ 0 <= outcome.tp
        /\ outcome.tp <= Len(annotations.annotated_regions)
        /\ outcome.fn >= 0
        /\ outcome.fp >= 0
        /\ \A p \in DOMAIN decisions :
              decisions[p].match =>
                  /\ decisions[p].gt \in DOMAIN annotations.annotated_regions
                  /\ \A q \in DOMAIN decisions :
                        (q # p /\ decisions[q].match) => decisions[q].gt # decisions[p].gt

=============================================================================
